---- MODULE Spec2Model ----
(***************************************************************************)
(* Model of zerotier-qt (src/main.py): the controller functions, the       *)
(* MainWindow handlers that call them and the start-up sequence of         *)
(* __main__.  The daemon, the init system, the OS interface table, the     *)
(* file system and the polkit helper are the environment: their state is   *)
(* kept in variables, their answers are drawn with \E where the program    *)
(* cannot determine them.                                                  *)
(***************************************************************************)
EXTENDS Integers, Sequences, FiniteSets, TLC

\* ---------------------------------------------------------------- bounds
MaxNets == 3      \* network ids are 1..MaxNets
MaxExt  == 1      \* number of out-of-band environment changes in a run

NetIds    == 1..MaxNets
\* texts typed in the join box: the network ids, and 0 for a text that
\* zerotier-cli rejects as a network id
JoinTexts == 0..MaxNets

\* ---------------------------------------------------------------- paths
None     == "None"
NoFile   == "<no file>"
RawA     == "tokA\n"
RawB     == "tokB\n"
Contents == {RawA, RawB}
OtherDir == "/tmp/elsewhere"
DotName  == ".zeroTierOneAuthToken"

HOME_DIR   == "/home/user"
CONFIG_DIR == "/home/user/.config/zerotier-qt"
AUTH_FILE  == <<CONFIG_DIR, "authtoken.secret">>
SysFile    == <<"/var/lib/zerotier-one", "authtoken.secret">>
Dirs       == {HOME_DIR, OtherDir}
Paths      == {SysFile, AUTH_FILE, <<HOME_DIR, DotName>>, <<OtherDir, DotName>>}

\* os.path.join(dir, name)
OsPathJoin(dir, name) == <<dir, name>>
\* a relative path is resolved against the working directory of the process
RelPath(cwd_, name) == <<cwd_, name>>
\* os.path.isfile(path)
IsFile(fs_, path) == fs_[path] # NoFile
\* str.strip() on the contents of a token file
Strip(raw) == CASE raw = RawA -> "tokA"
                [] raw = RawB -> "tokB"
                [] OTHER      -> raw

Access(kind, path) == [op |-> kind, path |-> path]

\* open(path).read().strip(): the value, or FileNotFoundError
OpenRead(fs_, path) ==
  [raised |-> ~IsFile(fs_, path),
   value  |-> IF IsFile(fs_, path) THEN Strip(fs_[path]) ELSE None,
   files  |-> <<Access("open", path)>>]

\* the result of get_token() when it read a file: r is the read, probes the
\* isfile() tests made before it
TokenFrom(r, probes) ==
  [raised |-> r.raised, value |-> r.value, files |-> probes \o r.files,
   probed |-> TRUE]

\* get_token() without the test of the cached value: every call goes to the
\* file system
get_token_nocache(tok, fs_, uid_, cwd_) ==
  IF uid_ = 0
  THEN TokenFrom(OpenRead(fs_, SysFile), <<>>)
  ELSE IF IsFile(fs_, RelPath(cwd_, DotName))
  THEN TokenFrom(OpenRead(fs_, OsPathJoin(HOME_DIR, DotName)),
                 <<Access("isfile", RelPath(cwd_, DotName))>>)
  ELSE TokenFrom(OpenRead(fs_, AUTH_FILE),
                 <<Access("isfile", RelPath(cwd_, DotName))>>)

\* get_token(): result for the cached value tok, the files fs_, the user id
\* and the working directory.  value is the new value of the global
\* authtoken; files lists every path probed or opened, in order.
get_token(tok, fs_, uid_, cwd_) ==
  IF tok # None
  THEN [raised |-> FALSE, value |-> tok, files |-> <<>>, probed |-> FALSE]
  ELSE IF uid_ = 0
  THEN TokenFrom(OpenRead(fs_, SysFile), <<>>)
  ELSE IF IsFile(fs_, RelPath(cwd_, DotName))
  THEN TokenFrom(OpenRead(fs_, OsPathJoin(HOME_DIR, DotName)),
                 <<Access("isfile", RelPath(cwd_, DotName))>>)
  ELSE TokenFrom(OpenRead(fs_, AUTH_FILE),
                 <<Access("isfile", RelPath(cwd_, DotName))>>)

\* ------------------------------------------------------------ variables
VARIABLES
  pc,           \* position of the process: "start", "service", "auth",
                \* "probe", "window", "running", "exited"
  exitCode,     \* exit status of the process, -1 while it runs
  exitCause,    \* why the process ended, "none" while it runs
  uid,          \* os.getuid()
  cwd,          \* working directory of the process
  fs,           \* the credential files: path -> contents or NoFile
  cliInstalled, \* shutil.which("zerotier-cli") is not None
  svcActive,    \* ActiveState of the zerotier-one unit is "active"
  daemonUp,     \* the daemon answers zerotier-cli
  joined,       \* the networks the daemon is a member of
  ifaces,       \* OS interface table: device -> operstate or Absent
  authtoken,    \* the global authtoken (None until resolved)
  table,        \* rows of MainWindow.networksTable
  last,         \* what the last handler did (commands, files, dialogs, result)
  resolutions,  \* number of get_token() calls that went to the file system
  ext,          \* number of out-of-band environment changes so far
  svcEnabled,   \* UnitFileState of the zerotier-one unit is "enabled"
  serviceBtn,   \* what MainWindow.serviceBtn offers: "Stop", "Start" or Unset
  serviceCheckBox, \* MainWindow.serviceCheckBox: TRUE, FALSE or Unset
  gates,        \* the checks of __main__ the process has passed, in order
  step          \* the handler in progress and its local variables

vars == <<pc, exitCode, exitCause, uid, cwd, fs, cliInstalled, svcActive,
          daemonUp, joined, ifaces, authtoken, table, last, resolutions, ext,
          svcEnabled, serviceBtn, serviceCheckBox, gates, step>>

\* the widgets and the bookkeeping a handler of the network table leaves alone
Held == <<serviceBtn, serviceCheckBox, gates, step>>

\* ---------------------------------------------------------- environment
Absent     == "<absent>"
OperStates == {"UP", "DOWN"}
\* str.lower() on an operstate
Lower(s) == CASE s = "UP"   -> "up"
              [] s = "DOWN" -> "down"
              [] OTHER      -> s

\* portDeviceName of a network: the daemon derives it from the network id
Dev(n) == n

RECURSIVE SortedSeq(_)
SortedSeq(S) ==
  IF S = {} THEN <<>>
  ELSE LET m == CHOOSE x \in S : \A y \in S : x <= y
       IN  <<m>> \o SortedSeq(S \ {m})

\* `zerotier-cli -j listnetworks`: one object per joined network, by id
ListNetworksJson(joinedSet) ==
  LET ids == SortedSeq(joinedSet)
  IN  [k \in 1..Len(ids) |-> [nwid |-> ids[k], portDeviceName |-> Dev(ids[k])]]

\* `ip --json address`: one object per interface the OS knows
IpAddressJson(ifs) ==
  LET devs == SortedSeq({d \in DOMAIN ifs : ifs[d] # Absent})
  IN  [k \in 1..Len(devs) |-> [ifname |-> devs[k], operstate |-> ifs[devs[k]]]]

\* exit status of a zerotier-cli command
CliRc(up, verb, nid, joinedSet) ==
  IF ~up THEN 1
  ELSE CASE verb = "join"  -> IF nid \in NetIds THEN 0 ELSE 1
         [] verb = "leave" -> IF nid \in joinedSet THEN 0 ELSE 1
         [] verb = "set"   -> IF nid \in joinedSet THEN 0 ELSE 1
         [] OTHER          -> 0

Cmd(prog, verb, tok, nid, key, val) ==
  [prog |-> prog, verb |-> verb, token |-> tok, nwid |-> nid, key |-> key, val |-> val]

\* ------------------------------------------------------- Python values
Bool(b) == [type |-> "bool", b |-> b,     i |-> 0, s |-> <<>>]
IntV(i) == [type |-> "int",  b |-> FALSE, i |-> i, s |-> <<>>]
StrV(s) == [type |-> "str",  b |-> FALSE, i |-> 0, s |-> s]

Digits == {"0", "1", "2", "3", "4", "5", "6", "7", "8", "9"}
DigitVal(c) == CASE c = "0" -> 0 [] c = "1" -> 1 [] c = "2" -> 2 [] c = "3" -> 3
                 [] c = "4" -> 4 [] c = "5" -> 5 [] c = "6" -> 6 [] c = "7" -> 7
                 [] c = "8" -> 8 [] c = "9" -> 9 [] OTHER -> 0
RECURSIVE ParseDigits(_, _)
ParseDigits(s, acc) ==
  IF s = <<>> THEN acc ELSE ParseDigits(Tail(s), 10 * acc + DigitVal(Head(s)))

\* int(value) that falls back to 0 instead of raising
PyIntLenient(v) ==
  CASE v.type = "bool" -> [raised |-> FALSE, value |-> IF v.b THEN 1 ELSE 0]
    [] v.type = "int"  -> [raised |-> FALSE, value |-> v.i]
    [] OTHER ->
         IF v.s # <<>> /\ \A k \in 1..Len(v.s) : v.s[k] \in Digits
         THEN [raised |-> FALSE, value |-> ParseDigits(v.s, 0)]
         ELSE [raised |-> FALSE, value |-> 0]

\* int(value): the integer, or ValueError
PyInt(v) ==
  CASE v.type = "bool" -> [raised |-> FALSE, value |-> IF v.b THEN 1 ELSE 0]
    [] v.type = "int"  -> [raised |-> FALSE, value |-> v.i]
    [] OTHER ->
         IF v.s # <<>> /\ \A k \in 1..Len(v.s) : v.s[k] \in Digits
         THEN [raised |-> FALSE, value |-> ParseDigits(v.s, 0)]
         ELSE [raised |-> TRUE,  value |-> 0]

\* ------------------------------------------------- controller functions
\* One zerotier-cli invocation `zerotier-cli -T<token> verb ...`: the token
\* is resolved first; the command runs only if that did not raise.
Invoke(t, tok, rc, cmd) ==
  IF t.raised
  THEN [raised |-> "FileNotFoundError", tok |-> tok, files |-> t.files,
        probed |-> t.probed, cmds |-> <<>>, rc |-> -1]
  ELSE [raised |-> IF rc = 0 THEN "none" ELSE "CalledProcessError",
        tok |-> t.value, files |-> t.files, probed |-> t.probed,
        cmds |-> <<[cmd EXCEPT !.token = t.value]>>, rc |-> rc]

ZtCall(tok, up, joinedSet, verb, nid, key, val) ==
  Invoke(get_token(tok, fs, uid, cwd), tok, CliRc(up, verb, nid, joinedSet),
         Cmd("zerotier-cli", verb, None, nid, key, val))

get_status(tok, up, joinedSet) == ZtCall(tok, up, joinedSet, "status", 0, "", 0)

\* get_networks_info(): the call and, when it did not raise, the decoded list
Decoded(c, json) ==
  [call |-> c, data |-> IF c.raised = "none" THEN json ELSE <<>>]

get_networks_info(tok, up, joinedSet) ==
  Decoded(ZtCall(tok, up, joinedSet, "listnetworks", 0, "", 0),
          ListNetworksJson(joinedSet))

get_peers_info(tok, up, joinedSet) == ZtCall(tok, up, joinedSet, "peers", 0, "", 0)

\* the loop of is_on_network without its break: the last entry decides
RECURSIVE IsOnNetworkLoopNoBreak(_, _, _, _)
IsOnNetworkLoopNoBreak(data, k, network_id, currently_joined) ==
  IF k > Len(data) THEN currently_joined
  ELSE IsOnNetworkLoopNoBreak(data, k + 1, network_id, data[k].nwid = network_id)

\* the loop of is_on_network over the list, from position k with the flag
RECURSIVE IsOnNetworkLoop(_, _, _, _)
IsOnNetworkLoop(data, k, network_id, currently_joined) ==
  IF k > Len(data) THEN currently_joined
  ELSE IF currently_joined THEN currently_joined
  ELSE IsOnNetworkLoop(data, k + 1, network_id, data[k].nwid = network_id)

is_on_network(data, network_id) == IsOnNetworkLoop(data, 1, network_id, FALSE)

\* the loop of get_interface_state over the interface list: the state, or
\* UnboundLocalError when no entry has the name
RECURSIVE InterfaceLoop(_, _, _)
InterfaceLoop(info, k, interface) ==
  IF k > Len(info) THEN [raised |-> TRUE, state |-> Absent]
  ELSE IF info[k].ifname = interface
  THEN [raised |-> FALSE, state |-> info[k].operstate]
  ELSE InterfaceLoop(info, k + 1, interface)

get_interface_state(ifs, interface) == InterfaceLoop(IpAddressJson(ifs), 1, interface)

IpCmd == Cmd("ip", "address", None, 0, "", 0)

\* the loop of refresh_networks over networkData from position k: the rows
\* built, or the exception of the first interface read that fails
RECURSIVE RowsLoop(_, _, _, _, _)

Row(network, state) ==
  [id     |-> network.nwid,
   dev    |-> network.portDeviceName,
   isDown |-> Lower(state) = "down"]

RowsStep(networkData, k, ifs, networks, cmds, r) ==
  IF r.raised
  THEN [raised |-> "UnboundLocalError", networks |-> networks, cmds |-> cmds]
  ELSE RowsLoop(networkData, k + 1, ifs,
                Append(networks, Row(networkData[k], r.state)), cmds)

RowsLoop(networkData, k, ifs, networks, cmds) ==
  IF k > Len(networkData)
  THEN [raised |-> "none", networks |-> networks, cmds |-> cmds]
  ELSE RowsStep(networkData, k, ifs, networks, Append(cmds, IpCmd),
                get_interface_state(ifs, networkData[k].portDeviceName))

NoRefresh == [ran |-> FALSE, raised |-> "none", listed |-> FALSE,
              tok |-> None, table |-> <<>>, cmds |-> <<>>, files |-> <<>>,
              probes |-> 0]

\* MainWindow.refresh_networks() on the table tbl
Refreshed(raised, listed, tok, tbl, cmds, files, probes) ==
  [ran |-> TRUE, raised |-> raised, listed |-> listed, tok |-> tok,
   table |-> tbl, cmds |-> cmds, files |-> files, probes |-> probes]

Probes(call) == IF call.probed THEN 1 ELSE 0

\* refresh_networks() after the list was fetched: the loop and the rows
RefreshRows(s, c, r) ==
  Refreshed(r.raised, TRUE, c.tok,
            IF r.raised = "none" THEN r.networks ELSE <<>>,
            s.cmds \o c.cmds \o r.cmds, s.files \o c.files,
            Probes(s) + Probes(c))

\* refresh_networks() after get_status(): the table is cleared, the list is
\* fetched
RefreshList(s, n, ifs) ==
  IF n.call.raised # "none"
  THEN Refreshed(n.call.raised, FALSE, n.call.tok, <<>>,
                 s.cmds \o n.call.cmds, s.files \o n.call.files,
                 Probes(s) + Probes(n.call))
  ELSE RefreshRows(s, n.call, RowsLoop(n.data, 1, ifs, <<>>, <<>>))

RefreshStatus(s, up, joinedSet, ifs, tbl) ==
  IF s.raised # "none"
  THEN Refreshed(s.raised, FALSE, s.tok, tbl, s.cmds, s.files, Probes(s))
  ELSE RefreshList(s, get_networks_info(s.tok, up, joinedSet), ifs)

refresh_networks(tok, up, joinedSet, ifs, tbl) ==
  RefreshStatus(get_status(tok, up, joinedSet), up, joinedSet, ifs, tbl)

\* what a handler leaves behind for inspection
Last(op, arg, answer, ret, raised, dialogs, cmds, files, listing, listed, esc, refresh) ==
  [op |-> op, arg |-> arg, answer |-> answer, ret |-> ret, raised |-> raised,
   dialogs |-> dialogs, cmds |-> cmds, files |-> files, listing |-> listing,
   listed |-> listed, esc |-> esc, value |-> IntV(0),
   refresh |-> [ran |-> refresh.ran, raised |-> refresh.raised,
                listed |-> refresh.listed]]

NoLast(op) == Last(op, 0, "none", "None", "none", <<>>, <<>>, <<>>, <<>>, FALSE, -1, NoRefresh)

Count(n) == IF n > 2 THEN 2 ELSE n

\* the state after refresh_networks() returned or raised r
Refreshing(op, r, before) ==
  /\ authtoken' = r.tok
  /\ resolutions' = Count(resolutions + r.probes)
  /\ table' = r.table
  /\ last' = Last(op, 0, "none", "None", r.raised, <<>>, before \o r.cmds,
                  r.files, <<>>, FALSE, -1, r)

\* ------------------------------------------------------------- start-up
Answers   == {"Yes", "No"}
\* exit statuses of the polkit helper: success, the command failed, the
\* prompt was dismissed, not authorised / not found
PkexecRcs == {0, 1, 126, 127}

SystemctlCmd(action) == Cmd("systemctl", action, None, 0, "", 0)

\* manage_service(action) when systemctl succeeds (ok) or fails
manage_service(action, ok) ==
  [cmds    |-> <<SystemctlCmd(action)>>,
   dialogs |-> IF ok THEN <<>> ELSE <<"warning: Something went wrong">>]

\* `systemctl show zerotier-one --property=ActiveState,UnitFileState`: the
\* lines of the output, each already split at its first "="
SystemctlShow(active, enabled) ==
  << <<"ActiveState",   IF active  THEN "active"  ELSE "inactive">>,
     <<"UnitFileState", IF enabled THEN "enabled" ELSE "disabled">>,
     <<"">> >>

\* the loop of get_service_status over the lines from position k
RECURSIVE FormattedData(_, _, _)
FormattedData(data, k, formatted_data) ==
  IF k > Len(data) THEN formatted_data
  ELSE IF Len(data[k]) = 2
  THEN FormattedData(data, k + 1,
                     [x \in DOMAIN formatted_data \cup {data[k][1]} |->
                        IF x = data[k][1] THEN data[k][2] ELSE formatted_data[x]])
  ELSE FormattedData(data, k + 1, formatted_data)

\* get_service_status() for the unit as it is
get_service_status(active, enabled) ==
  FormattedData(SystemctlShow(active, enabled), 1, <<>>)

Unset == "<unset>"

\* MainWindow.update_service_status() that leaves the widgets as they are
update_service_status_stale(status) ==
  UNCHANGED <<serviceBtn, serviceCheckBox>>

\* MainWindow.update_service_status() given the status it queried
update_service_status(status) ==
  /\ serviceCheckBox' = (status["UnitFileState"] = "enabled")
  /\ serviceBtn' = IF status["ActiveState"] = "active" THEN "Stop" ELSE "Start"

\* a started daemon writes its secret file if there is none
StartedFs(fs_, ok) ==
  IF ok /\ ~IsFile(fs_, SysFile) THEN [fs_ EXCEPT ![SysFile] = RawA] ELSE fs_

\* the status each way of ending the process gives: the os._exit() calls of
\* setup_auth_token and __main__, and the interpreter's status for an
\* exception nobody catches
ExitCauses == {"no_cli", "refused_start", "refused_start_for_token",
               "helper_absent", "copy_failed", "copy_refused", "probe_failed",
               "uncaught"}
ExitCodeOf(cause) ==
  CASE cause = "no_cli"                  -> 127
    [] cause = "refused_start"           -> 1
    [] cause = "refused_start_for_token" -> 0
    [] cause = "helper_absent"           -> 1
    [] cause = "copy_failed"             -> 1
    [] cause = "copy_refused"            -> 1
    [] cause = "probe_failed"            -> 1
    [] OTHER                             -> 1

Exit(cause) ==
  /\ pc' = "exited"
  /\ exitCode' = ExitCodeOf(cause)
  /\ exitCause' = cause
  /\ UNCHANGED gates

Goto(next) ==
  /\ pc' = next
  /\ UNCHANGED <<exitCode, exitCause, gates>>

\* a check of __main__ passed: the process goes on to the next one
Pass(next, gate) ==
  /\ pc' = next
  /\ gates' = Append(gates, gate)
  /\ UNCHANGED <<exitCode, exitCause>>

\* __main__: shutil.which("zerotier-cli")
CheckCli ==
  /\ pc = "start"
  /\ IF cliInstalled
     THEN /\ Pass("service", "cli")
          /\ last' = NoLast("check_cli")
     ELSE /\ Exit("no_cli")
          /\ last' = [NoLast("check_cli") EXCEPT !.dialogs = <<"critical: No zerotier-cli">>]
  /\ UNCHANGED <<uid, cwd, fs, cliInstalled, svcActive, daemonUp, joined,
                 ifaces, authtoken, table, resolutions, ext, svcEnabled,
                 serviceBtn, serviceCheckBox, step>>

\* __main__: the service check
CheckService ==
  /\ pc = "service"
  /\ \/ /\ svcActive
        /\ Pass("auth", "service_active")
        /\ last' = [NoLast("check_service") EXCEPT !.cmds = <<SystemctlCmd("show")>>]
        /\ UNCHANGED <<svcActive, fs>>
     \/ /\ ~svcActive
        /\ \E ok \in BOOLEAN :
             LET m == manage_service("start", ok)
             IN  /\ Pass("auth", "service_start_agreed")
                 /\ svcActive' = ok
                 /\ fs' = StartedFs(fs, ok)
                 /\ last' = [NoLast("check_service") EXCEPT
                               !.answer = "Yes",
                               !.cmds = <<SystemctlCmd("show")>> \o m.cmds,
                               !.dialogs = m.dialogs]
     \/ /\ ~svcActive
        /\ Exit("refused_start")
        /\ last' = [NoLast("check_service") EXCEPT
                      !.answer = "No", !.cmds = <<SystemctlCmd("show")>>]
        /\ UNCHANGED <<svcActive, fs>>
  /\ UNCHANGED <<uid, cwd, cliInstalled, daemonUp, joined, ifaces, authtoken,
                 table, resolutions, ext, svcEnabled, serviceBtn,
                 serviceCheckBox, step>>

PkexecCopyCmd == Cmd("pkexec", "cp+chown", None, 0, "", 0)

\* setup_auth_token()
SetupAuthToken ==
  /\ pc = "auth"
  /\ \/ \* no system secret file and the user refuses to start the service
        /\ ~IsFile(fs, SysFile)
        /\ Exit("refused_start_for_token")
        /\ last' = [NoLast("setup_auth_token") EXCEPT !.answer = "No"]
        /\ UNCHANGED <<fs, svcActive>>
     \/ \E ok \in BOOLEAN :
          /\ IsFile(fs, SysFile) => ok
          /\ LET start  == ~IsFile(fs, SysFile)
                 m      == IF start THEN manage_service("start", ok)
                           ELSE [cmds |-> <<>>, dialogs |-> <<>>]
                 fs1    == IF start THEN StartedFs(fs, ok) ELSE fs
                 svc1   == IF start /\ ok THEN TRUE ELSE svcActive
                 base   == [NoLast("setup_auth_token") EXCEPT
                              !.cmds = m.cmds, !.dialogs = m.dialogs]
             IN  /\ svcActive' = svc1
                 /\ IF uid = 0 \/ IsFile(fs1, AUTH_FILE)
                    THEN /\ Pass("probe", "token")
                         /\ fs' = fs1
                         /\ last' = base
                    ELSE \/ \* the user refuses the copy
                            /\ Exit("copy_refused")
                            /\ fs' = fs1
                            /\ last' = [base EXCEPT !.answer = "No"]
                         \/ \E rc \in PkexecRcs :
                              /\ rc = 0 => IsFile(fs1, SysFile)
                              /\ LET l == [base EXCEPT
                                             !.answer = "Yes", !.esc = rc,
                                             !.cmds = m.cmds \o <<PkexecCopyCmd>>]
                                 IN  IF rc = 0
                                     THEN /\ Pass("probe", "token")
                                          /\ fs' = [fs1 EXCEPT ![AUTH_FILE] = fs1[SysFile]]
                                          /\ last' = l
                                     ELSE IF rc = 127
                                     THEN /\ Exit("helper_absent")
                                          /\ fs' = fs1
                                          /\ last' = l
                                     ELSE /\ Exit("copy_failed")
                                          /\ fs' = fs1
                                          /\ last' = [l EXCEPT !.dialogs =
                                                        m.dialogs \o <<"critical: Operation Failed">>]
  /\ UNCHANGED <<uid, cwd, cliInstalled, daemonUp, joined, ifaces, authtoken,
                 table, resolutions, ext, svcEnabled, serviceBtn,
                 serviceCheckBox, step>>

\* the probe of __main__ whose failure does not end the process
ProbedUnchecked(c, l) ==
  /\ authtoken' = c.tok
  /\ resolutions' = Count(resolutions + (IF c.probed THEN 1 ELSE 0))
  /\ Goto("window")
  /\ last' = l

\* __main__ after the probe command c: the exits, or on to the window
Probed(c, l) ==
  /\ authtoken' = c.tok
  /\ resolutions' = Count(resolutions + (IF c.probed THEN 1 ELSE 0))
  /\ IF c.raised = "FileNotFoundError"
     THEN /\ Exit("uncaught")
          /\ last' = l
     ELSE IF c.raised = "CalledProcessError"
     THEN /\ Exit("probe_failed")
          /\ last' = [l EXCEPT !.raised = "none", !.dialogs =
                        (IF c.rc = 1 THEN <<"critical: can't connect">> ELSE <<>>)
                        \o <<"critical: unknown error">>]
     ELSE /\ Pass("window", "probe")
          /\ last' = l

ProbeLast(c) ==
  [NoLast("probe") EXCEPT !.cmds = c.cmds, !.files = c.files, !.raised = c.raised]

ProbeCall(c) == Probed(c, ProbeLast(c))

\* __main__: the `zerotier-cli listnetworks` probe
Probe ==
  /\ pc = "probe"
  /\ ProbeCall(ZtCall(authtoken, daemonUp, joined, "listnetworks", 0, "", 0))
  /\ UNCHANGED <<uid, cwd, fs, cliInstalled, svcActive, daemonUp, joined,
                 ifaces, table, ext, svcEnabled, serviceBtn, serviceCheckBox,
                 step>>

WindowShown(r) ==
  /\ Refreshing("window_init", r, <<SystemctlCmd("show")>>)
  /\ IF r.raised # "none" THEN Exit("uncaught") ELSE Goto("running")

\* MainWindow.__init__(): update_service_status() and refresh_networks()
WindowInit ==
  /\ pc = "window"
  /\ update_service_status(get_service_status(svcActive, svcEnabled))
  /\ WindowShown(refresh_networks(authtoken, daemonUp, joined, ifaces, table))
  /\ UNCHANGED <<uid, cwd, fs, cliInstalled, svcActive, daemonUp, joined,
                 ifaces, ext, svcEnabled, step>>

\* ------------------------------------------------------------- handlers
\* A handler runs to completion on the event-loop thread.  An exception that
\* leaves a handler is reported by the event loop (last.raised); the window
\* stays up.
Running == pc = "running"

Envs == <<uid, cwd, fs, cliInstalled, svcActive, svcEnabled>>

\* what the daemon and the OS do on a successful join / leave / link set
JoinedAfterJoin(joinedSet, nid)  == joinedSet \cup {nid}
IfacesAfterJoin(ifs, nid) ==
  [ifs EXCEPT ![Dev(nid)] = IF @ = Absent THEN "UP" ELSE @]
JoinedAfterLeave(joinedSet, nid) == joinedSet \ {nid}
IfacesAfterLeave(ifs, nid) == [ifs EXCEPT ![Dev(nid)] = Absent]
IfacesAfterSet(ifs, dev, target) ==
  [ifs EXCEPT ![dev] = IF target = "up" THEN "UP" ELSE "DOWN"]

Result(ret, raised, dialogs, call, listing, listed, env) ==
  [ret |-> ret, raised |-> raised, dialogs |-> dialogs, cmds |-> call.cmds,
   files |-> call.files, tok |-> call.tok, probes |-> call.probes,
   listing |-> listing, listed |-> listed, env |-> env]

Env(joinedSet, ifs) == [joined |-> joinedSet, ifaces |-> ifs]

\* the commands, files and token of one call, and of two calls in a row
One(c) == [cmds |-> c.cmds, files |-> c.files, tok |-> c.tok, probes |-> Probes(c)]
Two(c1, c2) ==
  [cmds |-> c1.cmds \o c2.cmds, files |-> c1.files \o c2.files, tok |-> c2.tok,
   probes |-> Probes(c1) + Probes(c2)]
NoCall(tok) == [cmds |-> <<>>, files |-> <<>>, tok |-> tok, probes |-> 0]

\* the Refresh button, and the timers armed by a successful join
Refresh ==
  /\ Running
  /\ Refreshing("refresh",
                refresh_networks(authtoken, daemonUp, joined, ifaces, table), <<>>)
  /\ UNCHANGED <<pc, exitCode, exitCause, Envs, daemonUp, joined, ifaces, ext,
                 Held>>

\* join_network() from check_call(join) on
JoinCommand(n, j, network_id) ==
  IF j.raised = "FileNotFoundError"
  THEN Result("None", j.raised, <<>>, Two(n.call, j), n.data, TRUE,
              Env(joined, ifaces))
  ELSE IF j.raised = "CalledProcessError"
  THEN Result("False", "none", <<"warning: Invalid network ID">>,
              Two(n.call, j), n.data, TRUE, Env(joined, ifaces))
  ELSE Result("True", "none", <<>>, Two(n.call, j), n.data, TRUE,
              Env(JoinedAfterJoin(joined, network_id),
                  IfacesAfterJoin(ifaces, network_id)))

\* join_network() once is_on_network() has fetched the list n
JoinScan(n, network_id) ==
  IF n.call.raised = "FileNotFoundError"
  THEN Result("None", n.call.raised, <<>>, One(n.call), <<>>, FALSE,
              Env(joined, ifaces))
  ELSE IF n.call.raised = "CalledProcessError"
  THEN Result("False", "none", <<"warning: Invalid network ID">>,
              One(n.call), <<>>, FALSE, Env(joined, ifaces))
  ELSE IF is_on_network(n.data, network_id)
  THEN Result("False", "none",
              <<"information: You are already a member of this network.">>,
              One(n.call), n.data, TRUE, Env(joined, ifaces))
  ELSE JoinCommand(n, ZtCall(n.call.tok, daemonUp, joined, "join", network_id, "", 0),
                   network_id)

\* join_network(network_id)
join_network(network_id) ==
  JoinScan(get_networks_info(authtoken, daemonUp, joined), network_id)

Finished(op, arg, answer, esc, f, r) ==
  /\ authtoken' = (IF r.ran THEN r.tok ELSE f.tok)
  /\ resolutions' = Count(resolutions + f.probes + r.probes)
  /\ joined' = f.env.joined
  /\ ifaces' = f.env.ifaces
  /\ table' = (IF r.ran THEN r.table ELSE table)
  /\ last' = Last(op, arg, answer, f.ret,
                  IF f.raised # "none" THEN f.raised ELSE r.raised,
                  f.dialogs, f.cmds \o r.cmds, f.files \o r.files,
                  f.listing, f.listed, esc, r)

\* the tail shared by the call_* handlers: refresh_networks() iff the
\* controller function returned True
Finish(op, arg, answer, esc, f) ==
  Finished(op, arg, answer, esc, f,
           IF f.ret = "True"
           THEN refresh_networks(f.tok, daemonUp, f.env.joined, f.env.ifaces, table)
           ELSE NoRefresh)

\* MainWindow.call_join_network()
Join(text) ==
  /\ Running
  /\ Finish("join", text, "none", -1, join_network(text))
  /\ UNCHANGED <<pc, exitCode, exitCause, Envs, daemonUp, ext,
                 Held>>

\* leave_network() after the answer Yes: the command c and its outcome
LeaveCommand(c, networkId) ==
  IF c.raised = "FileNotFoundError"
  THEN Result("None", c.raised, <<>>, One(c), <<>>, FALSE, Env(joined, ifaces))
  ELSE IF c.raised = "CalledProcessError"
  THEN Result("False", "none", <<"warning: Failed to leave network.">>,
              One(c), <<>>, FALSE, Env(joined, ifaces))
  ELSE Result("True", "none", <<>>, One(c), <<>>, FALSE,
              Env(JoinedAfterLeave(joined, networkId),
                  IfacesAfterLeave(ifaces, networkId)))

\* leave_network() that does not look at the answer
leave_network_unconfirmed(networkId, answer) ==
  LeaveCommand(ZtCall(authtoken, daemonUp, joined, "leave", networkId, "", 0),
               networkId)

\* leave_network(networkId) with the answer given to its question
leave_network(networkId, answer) ==
  IF answer # "Yes"
  THEN Result("False", "none", <<>>, NoCall(authtoken), <<>>, FALSE,
              Env(joined, ifaces))
  ELSE LeaveCommand(ZtCall(authtoken, daemonUp, joined, "leave", networkId, "", 0),
                    networkId)

\* MainWindow.call_leave_network() on the selected row
Leave(row, answer) ==
  /\ Running
  /\ row \in 1..Len(table)
  /\ Finish("leave", table[row].id, answer, -1, leave_network(table[row].id, answer))
  /\ UNCHANGED <<pc, exitCode, exitCause, Envs, daemonUp, ext,
                 Held>>

PkexecLinkCmd(interfaceName, target) ==
  Cmd("pkexec", "ip link set", None, interfaceName, target, 0)

\* the two branches of toggle_interface: the helper is asked for target
LinkSet(interfaceName, target, rc) ==
  Result(IF rc = 0 THEN "True" ELSE "False", "none", <<>>,
         [cmds |-> <<IpCmd, PkexecLinkCmd(interfaceName, target)>>,
          files |-> <<>>, tok |-> authtoken, probes |-> 0],
         <<>>, FALSE,
         Env(joined, IF rc = 0 THEN IfacesAfterSet(ifaces, interfaceName, target)
                     ELSE ifaces))

\* toggle_interface() once the state s was read
Flip(s, interfaceName, rc) ==
  IF s.raised
  THEN Result("None", "UnboundLocalError", <<>>,
              [cmds |-> <<IpCmd>>, files |-> <<>>, tok |-> authtoken, probes |-> 0],
              <<>>, FALSE, Env(joined, ifaces))
  ELSE IF Lower(s.state) = "down"
  THEN LinkSet(interfaceName, "up", rc)
  ELSE LinkSet(interfaceName, "down", rc)

\* toggle_interface(interfaceName) when the helper exits with rc
toggle_interface(interfaceName, rc) ==
  Flip(get_interface_state(ifaces, interfaceName), interfaceName, rc)

Toggled(dev, rc, f) ==
  /\ f.raised # "none" => rc = 0
  /\ Finish("toggle", dev, "none", IF f.raised = "none" THEN rc ELSE -1, f)

\* MainWindow.call_toggle_interface() on the selected row
Toggle(row, rc) ==
  /\ Running
  /\ row \in 1..Len(table)
  /\ Toggled(table[row].dev, rc, toggle_interface(table[row].dev, rc))
  /\ UNCHANGED <<pc, exitCode, exitCause, Envs, daemonUp, ext,
                 Held>>

\* change_config() after int(value): the set command c and its outcome
SetCommand(c) ==
  IF c.raised = "FileNotFoundError"
  THEN Result("None", c.raised, <<>>, One(c), <<>>, FALSE, Env(joined, ifaces))
  ELSE Result("None", "none",
              IF c.raised = "CalledProcessError"
              THEN <<"warning: Failed to change config">> ELSE <<>>,
              One(c), <<>>, FALSE, Env(joined, ifaces))

Coerced(v, network_id, config) ==
  IF v.raised
  THEN Result("None", "ValueError", <<>>, NoCall(authtoken), <<>>, FALSE,
              Env(joined, ifaces))
  ELSE SetCommand(ZtCall(authtoken, daemonUp, joined, "set", network_id, config,
                         v.value))

\* change_config(network_id, config, value)
change_config(network_id, config, value) ==
  Coerced(PyInt(value), network_id, config)

ConfigKeys == {"allowDefault"}
Values == {Bool(TRUE), Bool(FALSE), IntV(2), StrV(<<"1", "0">>),
           StrV(<<"a", "b", "c">>)}

Configured(network_id, value, f) ==
  /\ authtoken' = f.tok
  /\ resolutions' = Count(resolutions + f.probes)
  /\ last' = [Last("change_config", network_id, "none", f.ret, f.raised,
                   f.dialogs, f.cmds, f.files, <<>>, FALSE, -1, NoRefresh)
                EXCEPT !.value = value]

\* a check box of the network-info dialog, or any other caller of change_config
ChangeConfig(network_id, config, value) ==
  /\ Running
  /\ network_id \in joined
  /\ Configured(network_id, value, change_config(network_id, config, value))
  /\ UNCHANGED <<pc, exitCode, exitCause, Envs, daemonUp, joined, ifaces,
                 table, ext,
                 Held>>

Queried(verb, c) ==
  /\ authtoken' = c.tok
  /\ resolutions' = Count(resolutions + Probes(c))
  /\ last' = Last(verb, 0, "none", "None", c.raised, <<>>, c.cmds,
                  c.files, <<>>, FALSE, -1, NoRefresh)

\* about_window() reads get_status(); PeersList.refresh() reads get_peers_info()
Query(verb) ==
  /\ Running
  /\ Queried(verb, IF verb = "status" THEN get_status(authtoken, daemonUp, joined)
                   ELSE get_peers_info(authtoken, daemonUp, joined))
  /\ UNCHANGED <<pc, exitCode, exitCause, Envs, daemonUp, joined, ifaces,
                 table, ext,
                 Held>>

\* what the init system does to the unit on `systemctl <action>` that
\* succeeds (ok) or fails
UnitAfter(action, ok, active, enabled) ==
  [active  |-> IF ok /\ action \in {"start", "stop"}
               THEN action = "start" ELSE active,
   enabled |-> IF ok /\ action \in {"enable", "disable"}
               THEN action = "enable" ELSE enabled]

\* the tail shared by start_stop_service and enable_disable_service:
\* manage_service(action), then update_service_status()
ServiceRequest(op, action, ok, m, unit) ==
  /\ svcActive' = unit.active
  /\ svcEnabled' = unit.enabled
  /\ fs' = IF action = "start" THEN StartedFs(fs, ok) ELSE fs
  /\ update_service_status(get_service_status(unit.active, unit.enabled))
  /\ last' = [NoLast(op) EXCEPT
                !.esc = IF ok THEN 0 ELSE 1,
                !.dialogs = m.dialogs,
                !.cmds = <<SystemctlCmd("show")>> \o m.cmds \o <<SystemctlCmd("show")>>]
  /\ UNCHANGED <<pc, exitCode, exitCause, uid, cwd, cliInstalled, daemonUp,
                 joined, ifaces, authtoken, table, resolutions, ext, gates, step>>

ServiceHandler(op, action, ok) ==
  ServiceRequest(op, action, ok, manage_service(action, ok),
                 UnitAfter(action, ok, svcActive, svcEnabled))

\* MainWindow.start_stop_service()
start_stop_service(status, ok) ==
  IF status["ActiveState"] = "active"
  THEN ServiceHandler("start_stop_service", "stop", ok)
  ELSE ServiceHandler("start_stop_service", "start", ok)

StartStop(ok) ==
  /\ Running
  /\ start_stop_service(get_service_status(svcActive, svcEnabled), ok)

\* MainWindow.enable_disable_service()
enable_disable_service(status, ok) ==
  IF status["UnitFileState"] = "enabled"
  THEN ServiceHandler("enable_disable_service", "disable", ok)
  ELSE ServiceHandler("enable_disable_service", "enable", ok)

EnableDisable(ok) ==
  /\ Running
  /\ enable_disable_service(get_service_status(svcActive, svcEnabled), ok)

\* The handlers of the network table, one external command at a time: the
\* event loop runs one handler at a time, the OS and the daemon go on
\* between two commands of a handler.  step holds the position of the
\* handler in progress (phase, "none" between two handlers) and its locals:
\* of toggle_interface the name, the state read and, for inspection, the
\* state the set found (atSet); of refresh_networks the list fetched
\* (fetched, data), the loop index k, the rows built and, for inspection,
\* the rows the table had (before).
Idle ==
  [op |-> "idle", phase |-> "none", dev |-> 0, state |-> Absent,
   atSet |-> Absent, fetched |-> FALSE, data |-> <<>>, k |-> 0,
   networks |-> <<>>, before |-> <<>>, cmds |-> <<>>]

Stepping(phase) == Running /\ step.phase = phase

\* the rest of the state a step of toggle_interface leaves alone
ToggleKeeps ==
  UNCHANGED <<pc, exitCode, exitCause, Envs, daemonUp, joined, authtoken, table,
              resolutions, ext, serviceBtn, serviceCheckBox, gates>>

\* toggle_interface(): state = get_interface_state(interfaceName)
ToggleRead(row) ==
  /\ Stepping("none")
  /\ row \in 1..Len(table)
  /\ IF get_interface_state(ifaces, table[row].dev).raised
     THEN /\ step' = [Idle EXCEPT !.dev = table[row].dev]
          /\ last' = [NoLast("toggle_read") EXCEPT
                        !.arg = table[row].dev, !.raised = "UnboundLocalError",
                        !.cmds = <<IpCmd>>]
     ELSE /\ step' = [Idle EXCEPT
                        !.op = "toggle", !.phase = "set", !.dev = table[row].dev,
                        !.state = get_interface_state(ifaces, table[row].dev).state,
                        !.cmds = <<IpCmd>>]
          /\ last' = [NoLast("toggle_read") EXCEPT !.arg = table[row].dev]
  /\ UNCHANGED ifaces
  /\ ToggleKeeps

\* the target toggle_interface asks for, with "up" and "down" exchanged
TargetSame(state) == IF Lower(state) = "down" THEN "down" ELSE "up"

\* the target toggle_interface asks for after reading state
Target(state) == IF Lower(state) = "down" THEN "up" ELSE "down"

\* toggle_interface(): check_call(pkexec ip link set ...) exits with rc, and
\* call_toggle_interface goes on to refresh_networks() when it returned True
ToggleSet(rc) ==
  /\ Stepping("set")
  /\ rc = 0 => ifaces[step.dev] # Absent
  /\ ifaces' = IF rc = 0 THEN IfacesAfterSet(ifaces, step.dev, Target(step.state))
               ELSE ifaces
  /\ step' = [step EXCEPT !.atSet = ifaces[step.dev],
                          !.op = IF rc = 0 THEN "refresh" ELSE "idle",
                          !.phase = IF rc = 0 THEN "status" ELSE "none"]
  /\ last' = [NoLast("toggle_set") EXCEPT
                !.arg = step.dev, !.esc = rc,
                !.ret = IF rc = 0 THEN "True" ELSE "False",
                !.cmds = step.cmds \o <<PkexecLinkCmd(step.dev, Target(step.state))>>]
  /\ ToggleKeeps

\* the rest of the state a step of refresh_networks leaves alone
RefreshKeeps ==
  UNCHANGED <<pc, exitCode, exitCause, Envs, daemonUp, joined, ifaces, ext,
              serviceBtn, serviceCheckBox, gates>>

\* refresh_networks() ends, by returning or by the exception raised
RefreshEnds(raised, cmds) ==
  /\ last' = [NoLast("refresh_networks") EXCEPT !.raised = raised, !.cmds = cmds]

\* refresh_networks(): get_status(), then networksTable.clear()
StatusRead(s) ==
  /\ authtoken' = s.tok
  /\ resolutions' = Count(resolutions + Probes(s))
  /\ IF s.raised # "none"
     THEN /\ RefreshEnds(s.raised, s.cmds)
          /\ step' = [step EXCEPT !.op = "idle", !.phase = "none",
                                  !.fetched = FALSE, !.data = <<>>, !.k = 0,
                                  !.networks = <<>>, !.before = table,
                                  !.cmds = s.cmds]
          /\ UNCHANGED table
     ELSE /\ last' = NoLast("refresh_status")
          /\ step' = [step EXCEPT !.op = "refresh", !.phase = "fetch",
                                  !.fetched = FALSE, !.data = <<>>, !.k = 0,
                                  !.networks = <<>>, !.before = table,
                                  !.cmds = s.cmds]
          /\ table' = <<>>

\* the Refresh button, or the refresh a successful toggle goes on to
RefreshBegin ==
  /\ Running
  /\ step.phase \in {"none", "status"}
  /\ StatusRead(get_status(authtoken, daemonUp, joined))
  /\ RefreshKeeps

\* refresh_networks(): networkData = get_networks_info()
ListRead(n) ==
  /\ authtoken' = n.call.tok
  /\ resolutions' = Count(resolutions + Probes(n.call))
  /\ IF n.call.raised # "none"
     THEN /\ RefreshEnds(n.call.raised, step.cmds \o n.call.cmds)
          /\ step' = [step EXCEPT !.op = "idle", !.phase = "none",
                                  !.cmds = step.cmds \o n.call.cmds]
     ELSE /\ last' = NoLast("refresh_list")
          /\ step' = [step EXCEPT !.phase = "item", !.fetched = TRUE,
                                  !.data = n.data, !.k = 1,
                                  !.cmds = step.cmds \o n.call.cmds]

RefreshFetch ==
  /\ Stepping("fetch")
  /\ ListRead(get_networks_info(authtoken, daemonUp, joined))
  /\ UNCHANGED table
  /\ RefreshKeeps

\* refresh_networks(): one turn of the loop over networkData
ItemRead(r) ==
  IF r.raised
  THEN /\ RefreshEnds("UnboundLocalError", Append(step.cmds, IpCmd))
       /\ step' = [step EXCEPT !.op = "idle", !.phase = "none",
                               !.cmds = Append(step.cmds, IpCmd)]
  ELSE /\ last' = NoLast("refresh_item")
       /\ step' = [step EXCEPT !.k = step.k + 1,
                               !.networks = Append(step.networks,
                                                   Row(step.data[step.k], r.state)),
                               !.cmds = Append(step.cmds, IpCmd)]

RefreshItem ==
  /\ Stepping("item")
  /\ step.k <= Len(step.data)
  /\ ItemRead(get_interface_state(ifaces, step.data[step.k].portDeviceName))
  /\ UNCHANGED <<authtoken, resolutions, table>>
  /\ RefreshKeeps

\* refresh_networks(): the rows built are inserted into the table
RefreshFill ==
  /\ Stepping("item")
  /\ step.k > Len(step.data)
  /\ table' = step.networks
  /\ RefreshEnds("none", step.cmds)
  /\ step' = [step EXCEPT !.op = "idle", !.phase = "none"]
  /\ UNCHANGED <<authtoken, resolutions>>
  /\ RefreshKeeps

\* ------------------------------------------- out-of-band changes
Alive == pc # "exited" /\ ext < MaxExt

\* the OS changes, unbinds or rebinds the interface of a joined network
ExtIface(d, s) ==
  /\ Alive
  /\ d \in joined
  /\ s # ifaces[Dev(d)]
  /\ ifaces' = [ifaces EXCEPT ![Dev(d)] = s]
  /\ ext' = ext + 1
  /\ last' = NoLast("ext")
  /\ UNCHANGED <<pc, exitCode, exitCause, Envs, daemonUp, joined, authtoken,
                 table, resolutions,
                 Held>>

\* the daemon becomes unreachable or reachable again
ExtDaemon ==
  /\ Alive
  /\ daemonUp' = ~daemonUp
  /\ ext' = ext + 1
  /\ last' = NoLast("ext")
  /\ UNCHANGED <<pc, exitCode, exitCause, Envs, joined, ifaces, authtoken,
                 table, resolutions,
                 Held>>

\* a credential file is written, rewritten or removed
ExtFile(path, content) ==
  /\ Alive
  /\ content # fs[path]
  /\ fs' = [fs EXCEPT ![path] = content]
  /\ ext' = ext + 1
  /\ last' = NoLast("ext")
  /\ UNCHANGED <<pc, exitCode, exitCause, uid, cwd, cliInstalled, svcActive,
                 daemonUp, joined, ifaces, authtoken, table, resolutions,
                 svcEnabled, Held>>

\* an administrator starts, stops, enables or disables the unit
ExtUnit(action) ==
  /\ Alive
  /\ UnitAfter(action, TRUE, svcActive, svcEnabled) #
       UnitAfter(action, FALSE, svcActive, svcEnabled)
  /\ svcActive' = UnitAfter(action, TRUE, svcActive, svcEnabled).active
  /\ svcEnabled' = UnitAfter(action, TRUE, svcActive, svcEnabled).enabled
  /\ ext' = ext + 1
  /\ last' = NoLast("ext")
  /\ UNCHANGED <<pc, exitCode, exitCause, uid, cwd, fs, cliInstalled, daemonUp,
                 joined, ifaces, authtoken, table, resolutions, Held>>

\* another client of the daemon joins or leaves a network
ExtMember(n) ==
  /\ Alive
  /\ IF n \in joined
     THEN /\ joined' = JoinedAfterLeave(joined, n)
          /\ ifaces' = IfacesAfterLeave(ifaces, n)
     ELSE /\ joined' = JoinedAfterJoin(joined, n)
          /\ ifaces' = IfacesAfterJoin(ifaces, n)
  /\ ext' = ext + 1
  /\ last' = NoLast("ext")
  /\ UNCHANGED <<pc, exitCode, exitCause, Envs, daemonUp, authtoken, table,
                 resolutions,
                 Held>>

\* ------------------------------------------------------ specification
Uids == {0, 1000}

\* what every run starts from: nothing resolved, nothing displayed
InitProcess ==
  /\ pc = "start"
  /\ exitCode = -1
  /\ exitCause = "none"
  /\ ifaces = [d \in NetIds |-> IF d \in joined THEN "UP" ELSE Absent]
  /\ authtoken = None
  /\ table = <<>>
  /\ last = NoLast("init")
  /\ resolutions = 0
  /\ ext = 0
  /\ serviceBtn = Unset
  /\ serviceCheckBox = Unset
  /\ gates = <<>>
  /\ step = Idle

\* a host where the credential files are in place and the daemon answers
Init ==
  /\ uid = 1000
  /\ cwd = HOME_DIR
  /\ fs = [p \in Paths |-> RawA]
  /\ cliInstalled = TRUE
  /\ svcActive = TRUE
  /\ svcEnabled = TRUE
  /\ daemonUp = TRUE
  /\ joined \in {{}, NetIds}
  /\ InitProcess

\* any host: every combination of user, working directory, credential
\* files, installed client, running service and reachable daemon
InitBoot ==
  /\ uid \in Uids
  /\ cwd \in Dirs
  /\ fs \in [Paths -> {NoFile, RawA}]
  /\ cliInstalled \in BOOLEAN
  /\ svcActive \in BOOLEAN
  /\ svcEnabled = TRUE
  /\ daemonUp \in BOOLEAN
  /\ joined \in {{}, NetIds}
  /\ InitProcess

\* a host where the unit is in any of its states
InitService ==
  /\ uid = 1000
  /\ cwd = HOME_DIR
  /\ fs = [p \in Paths |-> RawA]
  /\ cliInstalled = TRUE
  /\ svcActive \in BOOLEAN
  /\ svcEnabled \in BOOLEAN
  /\ daemonUp = TRUE
  /\ joined \in {{}, NetIds}
  /\ InitProcess

ServiceActions == {"start", "stop", "enable", "disable"}

Next ==
  \/ CheckCli
  \/ CheckService
  \/ SetupAuthToken
  \/ Probe
  \/ WindowInit
  \/ Refresh
  \/ \E text \in JoinTexts : Join(text)
  \/ \E row \in NetIds, answer \in Answers : Leave(row, answer)
  \/ \E row \in NetIds, rc \in PkexecRcs : Toggle(row, rc)
  \/ \E n \in NetIds, k \in ConfigKeys, v \in Values : ChangeConfig(n, k, v)
  \/ \E verb \in {"status", "peers"} : Query(verb)
  \/ \E d \in NetIds, s \in OperStates \cup {Absent} : ExtIface(d, s)
  \/ ExtDaemon
  \/ \E n \in NetIds : ExtMember(n)

\* Next: the start-up sequence and the handlers of the network table and of
\* the dialogs, each run to completion, on a host whose credential files
\* stay as they are.  NextBoot: the start-up sequence and the handlers that leave the
\* daemon and the interfaces alone, on a host whose files change.
NextBoot ==
  \/ CheckCli
  \/ CheckService
  \/ SetupAuthToken
  \/ Probe
  \/ WindowInit
  \/ Refresh
  \/ \E verb \in {"status", "peers"} : Query(verb)
  \/ \E n \in NetIds, k \in ConfigKeys, v \in Values : ChangeConfig(n, k, v)
  \/ ExtDaemon
  \/ \E p \in Paths, c \in Contents \cup {NoFile} : ExtFile(p, c)

\* NextService: the start-up sequence and the handlers of the service
\* button and check box, on a host where the unit changes.
NextService ==
  \/ CheckCli
  \/ CheckService
  \/ SetupAuthToken
  \/ Probe
  \/ WindowInit
  \/ Refresh
  \/ \E ok \in BOOLEAN : StartStop(ok)
  \/ \E ok \in BOOLEAN : EnableDisable(ok)
  \/ \E action \in ServiceActions : ExtUnit(action)
  \/ ExtDaemon

\* NextSteps: the start-up sequence, then the toggle and the refresh of the
\* network table one external command at a time, with the OS and the
\* daemon changing in between.
NextSteps ==
  \/ CheckCli
  \/ CheckService
  \/ SetupAuthToken
  \/ Probe
  \/ WindowInit
  \/ \E row \in NetIds : ToggleRead(row)
  \/ \E rc \in PkexecRcs : ToggleSet(rc)
  \/ RefreshBegin
  \/ RefreshFetch
  \/ RefreshItem
  \/ RefreshFill
  \/ \E d \in NetIds, s \in OperStates \cup {Absent} : ExtIface(d, s)
  \/ ExtDaemon
  \/ \E n \in NetIds : ExtMember(n)

Spec        == Init /\ [][Next]_vars
SpecBoot    == InitBoot /\ [][NextBoot]_vars
SpecService == InitService /\ [][NextService]_vars
SpecSteps   == Init /\ [][NextSteps]_vars

\* ------------------------------------------------------------ properties
HomeDot == OsPathJoin(HOME_DIR, DotName)
Ran(verb) == \E k \in DOMAIN last.cmds : last.cmds[k].verb = verb
Opened == {last.files[k].path : k \in {j \in DOMAIN last.files : last.files[j].op = "open"}}
Touched == {last.files[k].path : k \in DOMAIN last.files}

\* C1: when the id typed is the nwid of an entry of the list join_network
\* fetched, at any position, no `zerotier-cli join` is run, the "already a
\* member" notice is shown and the result is False; a join command is run
\* only when no entry matches.
JoinSkipsMembers ==
  (last.op = "join" /\ last.listed) =>
    LET member == \E k \in DOMAIN last.listing : last.listing[k].nwid = last.arg
    IN  /\ member => /\ ~Ran("join")
                     /\ last.ret = "False"
                     /\ last.dialogs =
                          <<"information: You are already a member of this network.">>
        /\ Ran("join") => ~member

\* a join of the middle entry of a list of three or more
JoinOfMiddleMember ==
  /\ last.op = "join"
  /\ last.listed
  /\ Len(last.listing) >= 3
  /\ last.listing[2].nwid = last.arg
  /\ last.ret = "False"

NotCoercible(v) ==
  v.type = "str" /\ (v.s = <<>> \/ \E k \in DOMAIN v.s : v.s[k] \notin Digits)

\* C2: change_config sends True as 1 and False as 0; a value int() cannot
\* convert raises before any command is run and before any token file is
\* looked at.
ConfigCoercion ==
  last.op = "change_config" =>
    /\ last.value.type = "bool" =>
         /\ Len(last.cmds) = 1
         /\ last.cmds[1].verb = "set"
         /\ last.cmds[1].nwid = last.arg
         /\ last.cmds[1].val = (IF last.value.b THEN 1 ELSE 0)
    /\ NotCoercible(last.value) =>
         /\ last.raised = "ValueError"
         /\ last.cmds = <<>>
         /\ last.files = <<>>

\* change_config was given a free-form string
ConfigGivenText ==
  /\ last.op = "change_config"
  /\ NotCoercible(last.value)
  /\ last.raised = "ValueError"

\* C3: a refresh of a list in which exactly one network has no interface in
\* the OS table completes, lists every network, and shows the right state
\* for the networks whose interface is there.
RefreshToleratesMissingInterface ==
  (/\ last.op = "refresh"
   /\ last.refresh.listed
   /\ Cardinality({n \in joined : ifaces[Dev(n)] = Absent}) = 1) =>
    LET ids == SortedSeq(joined)
    IN  /\ last.raised = "none"
        /\ Len(table) = Len(ids)
        /\ \A k \in DOMAIN table :
             /\ table[k].id = ids[k]
             /\ ifaces[Dev(ids[k])] # Absent =>
                  table[k].isDown = (ifaces[Dev(ids[k])] = "DOWN")

\* C4: as root the first resolution touches the system secret file only; as
\* another user, with the config-directory copy there and no dotfile in the
\* home directory, the token is the content of the config-directory copy.
ElevatedReadsSystemOnly ==
  last.op = "probe" =>
    /\ uid = 0 => Touched \subseteq {SysFile}
    /\ (uid # 0 /\ IsFile(fs, AUTH_FILE) /\ ~IsFile(fs, HomeDot)) =>
         /\ last.raised = "none"
         /\ Opened = {AUTH_FILE}
         /\ authtoken = Strip(fs[AUTH_FILE])

\* C5: for another user than root the token comes from the dotfile of the
\* home directory when that file is there, else from the config-directory
\* copy, whatever the working directory; with neither file the resolution
\* fails.
FallbackOrder ==
  (last.op = "probe" /\ uid # 0) =>
    IF IsFile(fs, HomeDot)
    THEN /\ Opened = {HomeDot}
         /\ authtoken = Strip(fs[HomeDot])
    ELSE IF IsFile(fs, AUTH_FILE)
    THEN /\ Opened = {AUTH_FILE}
         /\ authtoken = Strip(fs[AUTH_FILE])
    ELSE /\ last.raised = "FileNotFoundError"
         /\ authtoken = None

\* C6: the token is resolved from the files at most once in the life of the
\* process; once set it never changes and no later call looks at a file,
\* whatever happens to the files; a resolution that failed is not repeated.
TokenResolvedOnce ==
  [][/\ resolutions' <= 1
     /\ authtoken # None => (authtoken' = authtoken /\ last'.files = <<>>)]_vars

\* a daemon command sent with the cached token after every credential file
\* is gone
TokenOutlivesFiles ==
  /\ authtoken # None
  /\ last.op \in {"status", "peers", "refresh", "change_config"}
  /\ last.cmds # <<>>
  /\ last.cmds[1].token = authtoken
  /\ \A p \in Paths : fs[p] = NoFile

\* C7: `zerotier-cli leave` is run only after the answer Yes; on any other
\* answer nothing is run, the membership stays and the result is False; on
\* Yes the result is True when the command exits 0, and False with the
\* "Failed to leave network." notice otherwise.
LeaveNeedsConfirmation ==
  [][last'.op = "leave" =>
       LET ran == \E k \in DOMAIN last'.cmds : last'.cmds[k].verb = "leave"
           rc  == CliRc(daemonUp, "leave", last'.arg, joined)
       IN  /\ ran => last'.answer = "Yes"
           /\ last'.answer # "Yes" =>
                /\ last'.cmds = <<>>
                /\ joined' = joined
                /\ last'.ret = "False"
           /\ last'.answer = "Yes" =>
                /\ ran
                /\ rc = 0 => (last'.ret = "True" /\ last'.arg \notin joined')
                /\ rc # 0 => /\ last'.ret = "False"
                             /\ joined' = joined
                             /\ last'.dialogs = <<"warning: Failed to leave network.">>]_vars

\* the question of leave_network answered No for a joined network
LeaveRefused ==
  /\ last.op = "leave"
  /\ last.answer = "No"
  /\ last.arg \in joined
  /\ last.ret = "False"

\* C8: the copy of the secret file through the helper tells three outcomes
\* apart: status 127 ends the process as a missing dependency, a dismissed
\* prompt (status 126) is no error - no error dialog, no error exit - and
\* any other failure is reported as a failed command.
EscalationOutcomes ==
  (last.op = "setup_auth_token" /\ last.esc # -1) =>
    /\ last.esc = 127 => exitCause = "helper_absent"
    /\ last.esc = 126 => (last.dialogs = <<>> /\ exitCode <= 0)
    /\ last.esc \notin {0, 126, 127} => exitCause = "copy_failed"

\* C9: the exit status for a missing zerotier-cli and the exit status for a
\* missing helper differ, and neither is the status of any other way the
\* start-up ends the process.
ClaimedCauses == ExitCauses \ {"uncaught"}
DistinctExitCodes ==
  (pc = "exited" /\ exitCause \in {"no_cli", "helper_absent"}) =>
    \A c \in ClaimedCauses \ {exitCause} : ExitCodeOf(c) # exitCode

\* C10: a daemon command that fails because the daemon does not answer is
\* reported by a notice of its own - not the notice of an invalid id, of a
\* failed leave or of a rejected setting - and leaves no exception behind.
OtherNotices == {"warning: Invalid network ID",
                 "warning: Failed to leave network.",
                 "warning: Failed to change config"}
DaemonUnavailableReported ==
  (/\ last.op \in {"refresh", "join", "leave", "change_config", "status", "peers"}
   /\ ~daemonUp
   /\ \E k \in DOMAIN last.cmds : last.cmds[k].prog = "zerotier-cli") =>
    /\ last.raised = "none"
    /\ last.dialogs # <<>>
    /\ \A k \in DOMAIN last.dialogs : last.dialogs[k] \notin OtherNotices

\* C11: a start, stop, enable or disable that fails shows the warning and
\* nothing else: no exception, the process keeps running; and after every
\* such request, failed or not, `systemctl show` is run again after the
\* action and the button and the check box show the unit as it then is.
ServiceFailureReported ==
  /\ last.op \in {"start_stop_service", "enable_disable_service"} =>
       /\ pc = "running"
       /\ exitCode = -1
       /\ last.raised = "none"
       /\ (last.esc # 0) <=> (last.dialogs = <<"warning: Something went wrong">>)
       /\ last.esc = 0 => last.dialogs = <<>>
       /\ Len(last.cmds) = 3
       /\ last.cmds[1].verb = "show"
       /\ last.cmds[2].verb \in
            (IF last.op = "start_stop_service" THEN {"start", "stop"}
             ELSE {"enable", "disable"})
       /\ last.cmds[3].verb = "show"
       /\ serviceBtn = (IF svcActive THEN "Stop" ELSE "Start")
       /\ serviceCheckBox = svcEnabled
  /\ (last.op = "check_service" /\ last.dialogs # <<>>) =>
       /\ pc = "auth"
       /\ exitCode = -1

\* a stop that failed after the unit was started behind the window's back:
\* the button, which offered Start, now offers Stop
FailedStopShowsActive ==
  /\ last.op = "start_stop_service"
  /\ last.cmds[2].verb = "stop"
  /\ last.esc # 0
  /\ last.dialogs # <<>>
  /\ svcActive
  /\ serviceBtn = "Stop"
  /\ ext > 0
  /\ pc = "running"

\* C12 as stated: toggle_interface reads the state once and runs exactly one
\* `pkexec ip link set <name> <target>`, target "up" iff the state read is
\* "down" in any case; and when nothing changed the interface between the
\* read and the set, it ends in the opposite of the state it had.
ToggleAlwaysFlips ==
  last.op = "toggle_set" =>
       /\ last.cmds = <<IpCmd, PkexecLinkCmd(last.arg,
                                IF Lower(step.state) = "down" THEN "up" ELSE "down")>>
       /\ step.atSet = step.state =>
            ifaces[last.arg] = (IF step.state = "DOWN" THEN "UP" ELSE "DOWN")

\* C12 as amended: one read; when the read finds the interface, exactly one
\* `pkexec ip link set`, target "up" iff the state read is "down"; a set
\* that exits 0 leaves the opposite of the state READ, also when the
\* interface was changed between the read and the set; a set that does not
\* exit 0 leaves the interface as the set found it; a read that does not
\* find the interface raises and nothing is set.
ToggleSetsOppositeOfRead ==
  /\ (last.op = "toggle_read" /\ step.phase = "none") =>
       /\ last.raised = "UnboundLocalError"
       /\ last.cmds = <<IpCmd>>
       /\ ifaces[last.arg] = Absent
  /\ last.op = "toggle_set" =>
       /\ last.cmds = <<IpCmd, PkexecLinkCmd(last.arg,
                                IF Lower(step.state) = "down" THEN "up" ELSE "down")>>
       /\ last.esc = 0 =>
            ifaces[last.arg] = (IF step.state = "DOWN" THEN "UP" ELSE "DOWN")
       /\ last.esc # 0 => ifaces[last.arg] = step.atSet

\* the interface was changed between the read and the set, and the set,
\* which exited 0, changed nothing: the interface is as the set found it,
\* the opposite of the state at the start of the toggle
ToggleAfterExternalChange ==
  /\ last.op = "toggle_set"
  /\ last.esc = 0
  /\ step.atSet # step.state
  /\ ifaces[last.arg] = step.atSet
  /\ ifaces[last.arg] # step.state

\* C13: a refresh runs `listnetworks` once and then reads the interface
\* state once for each network listed; and when it ends, by returning or by
\* an exception, the table holds either a row for every network of the list
\* just fetched or the rows it held before - not nothing, not a part - also
\* when the daemon or an interface changed between two of its commands.
Verbs(v) == {k \in DOMAIN last.cmds : last.cmds[k].verb = v}
RefreshAtomic ==
  last.op = "refresh_networks" =>
    /\ Cardinality(Verbs("listnetworks")) <= 1
    /\ \A i \in Verbs("address"), l \in Verbs("listnetworks") : l < i
    /\ last.raised = "none" =>
         /\ Cardinality(Verbs("listnetworks")) = 1
         /\ Cardinality(Verbs("address")) = Len(step.data)
    /\ \/ table = step.before
       \/ /\ step.fetched
          /\ Len(table) = Len(step.data)
          /\ \A k \in DOMAIN table : table[k].id = step.data[k].nwid

\* C14: the window exists only after the four checks of __main__ passed, in
\* their order: zerotier-cli found; the unit active, or the user agreed to
\* start it; setup_auth_token returned; `listnetworks` exited 0.  A probe
\* that fails, in whatever way, ends the process with status 1.  No
\* `zerotier-cli status` and no `listnetworks` other than the probe's is run
\* before the probe passed.
ServiceGates == {"service_active", "service_start_agreed"}
StartupGated ==
  /\ (pc \in {"window", "running"} \/ last.op = "window_init") =>
       /\ Len(gates) = 4
       /\ gates[1] = "cli"
       /\ gates[2] \in ServiceGates
       /\ gates[3] = "token"
       /\ gates[4] = "probe"
  /\ (last.op = "check_cli" /\ pc # "exited") => cliInstalled
  /\ (last.op = "check_service" /\ pc # "exited") =>
       \/ svcActive /\ gates[2] = "service_active" /\ ~Ran("start")
       \/ last.answer = "Yes" /\ gates[2] = "service_start_agreed" /\ Ran("start")
  /\ last.op = "probe" =>
       /\ Len(last.cmds) <= 1
       /\ pc \in {"window", "exited"}
       /\ pc = "window" => (last.raised = "none" /\ Ran("listnetworks"))
       /\ pc = "exited" => /\ exitCode = 1
                           /\ (last.dialogs # <<>>) <=> Ran("listnetworks")
  /\ (last.op # "probe" /\ (Ran("status") \/ Ran("listnetworks"))) =>
       (Len(gates) = 4 /\ gates[4] = "probe")

\* the window is up on a host where the unit was not active and the user
\* agreed to start it
WindowAfterAgreedStart ==
  /\ last.op = "window_init"
  /\ pc = "running"
  /\ gates[2] = "service_start_agreed"
  /\ Ran("status")

====
